---------------------------- MODULE Spec2Model ----------------------------
(***************************************************************************)
(* sw-collector: incremental extraction of software events from an apt     *)
(* history log into the collector database.                                *)
(*                                                                         *)
(* The model follows extract_history() of sw-collector.c line by line:     *)
(* one action per branch of its while loop, one for the code before the    *)
(* loop and one for the code after it.  The database (sw_collector_db) and *)
(* the history extractor (sw_collector_history) are collaborators whose    *)
(* code is not part of sw-collector.c; they are modelled from their        *)
(* interface description.  list_identifiers() is one action.              *)
(*                                                                         *)
(* Three specifications: Spec, the collector run after run while the log   *)
(* grows; SpecMerge, the operation lines of one transaction and their      *)
(* merge over two versions of a package; SpecBatch, runs with a budget     *)
(* over a fixed log in which no call fails.                                *)
(***************************************************************************)
EXTENDS Integers, Sequences, FiniteSets, TLC

(***************************************************************************)
(* Bounds of the model.                                                    *)
(***************************************************************************)
MaxLines == 3      \* lines of the history log
MaxTs == 3         \* parsable timestamps are 1..MaxTs
MaxCount == 1      \* --count values are 0..MaxCount
MaxEvents == 4     \* rows of the events table
MaxMergeLines == 3 \* operation lines of a transaction given to the merger

(***************************************************************************)
(* Program constants.                                                      *)
(***************************************************************************)
EXIT_SUCCESS == 0
EXIT_FAILURE == 1
\* FALSE of the C code, returned as the int status of extract_history
C_FALSE == 0
HalfWord == 65536 \* 2^16: a uint32_t is two such halves

(***************************************************************************)
(* The history log: a sequence of lines.  A line is the record             *)
(*   len   : 0 for an empty line                                           *)
(*   colon : whether the line holds the ':' terminator                     *)
(*   cmd   : the token before the ':'                                      *)
(*   ts    : for Start-Date, the timestamp that follows (0: one that the   *)
(*           extractor cannot parse)                                       *)
(*   pkg   : for an operation, the package that follows                    *)
(***************************************************************************)
Pkgs == {"p"}
NoPkg == "-"

Operations == {"Install", "Upgrade", "Remove", "Purge"}

BlankLine == [len |-> 0, colon |-> FALSE, cmd |-> "", ts |-> 0, pkg |-> NoPkg]
NoColonLine == [len |-> 1, colon |-> FALSE, cmd |-> "", ts |-> 0, pkg |-> NoPkg]
StartLine(t) == [len |-> 1, colon |-> TRUE, cmd |-> "Start-Date", ts |-> t, pkg |-> NoPkg]
EndLine == [len |-> 1, colon |-> TRUE, cmd |-> "End-Date", ts |-> 0, pkg |-> NoPkg]
OpLine(c, p) == [len |-> 1, colon |-> TRUE, cmd |-> c, ts |-> 0, pkg |-> p]
OtherLine == [len |-> 1, colon |-> TRUE, cmd |-> "Commandline", ts |-> 0, pkg |-> NoPkg]

LogLines ==
    {BlankLine, NoColonLine, EndLine, OtherLine}
        \cup {StartLine(t) : t \in 0..MaxTs}
        \cup {OpLine(c, p) : c \in Operations, p \in Pkgs}

VARIABLES
    history,     \* the apt history log file
    events,      \* db: the events table, in insertion order
    packages,    \* db: the package events, in insertion order
    inventory,   \* db: software identifiers, the rows [pkg, installed]
    pc,          \* "idle" | "loop" | "exit": where extract_history stands
    count,       \* static int count
    size,        \* number of lines mapped by chunk_map
    pos,         \* lines of history_chunk already fetched
    skip,        \* bool skip
    eid,         \* uint32_t eid
    last_eid,    \* uint32_t last_eid
    last_time,   \* char *last_time
    status,      \* the int extract_history returns
    outcome,     \* which statement ended the run
    merges,      \* what each call of merge_installed_packages in this run returned
    before,      \* the database as it was when this run began
    listed,      \* list_identifiers: its locals count and installed_count
    synced       \* n >= 0: a run read the first n lines of the log to their end, and
                 \* no run since has left the loop before the end; -1 otherwise

vars == <<history, events, packages, inventory, pc, count, size, pos, skip, eid,
          last_eid, last_time, status, outcome, merges, before, listed, synced>>

db == <<events, packages, inventory>>
locals == <<count, size, pos, skip, eid, last_eid, last_time, status, outcome, merges, before,
           listed>>
NoSnapshot ==
    [events |-> 0, packages |-> 0, inventory |-> {}, time |-> 0, synced |-> -1]
NoList == [count |-> 0, installed_count |-> 0]


(***************************************************************************)
(* Collaborators, from their interface.                                    *)
(***************************************************************************)
\* strcmp on the normalised fixed-width timestamps: its sign is that of the
\* difference of the instants
StrCmp(a, b) == a - b

\* history->extract_timestamp: fails on a remainder it cannot parse
ExtractTimestampOk(line) == line.ts \in 1..MaxTs

\* db->get_last_event: the row of the last event added, none on an empty table
HasLastEvent == Len(events) > 0
LastEvent == events[Len(events)]

\* db->add_event: the identifier of the new row
NextEid == IF Len(events) = 0 THEN 1 ELSE LastEvent.eid + 1
NewEvent(t, l) == [eid |-> NextEid, time |-> t, line |-> l]

\* history->extract_packages: one package event per group of the line, owned by
\* transaction e, Purge recorded as a removal
NewPackage(line, e, op, l) == [eid |-> e, op |-> op, pkg |-> line.pkg, line |-> l]

\* the package events this run produced: those of the events added after last_eid
ProducedInRun(le) == SelectSeq(packages, LAMBDA p : p.eid > le)

\* (variant: the installed flag of a known identifier is flipped, not set)
MergeOne_Flip(inv, p) ==
    {r \in inv : r.pkg # p.pkg}
        \cup {[pkg |-> p.pkg,
                installed |-> IF \E r \in inv : r.pkg = p.pkg
                              THEN \A r \in inv : r.pkg = p.pkg => ~r.installed
                              ELSE p.op \in {"Install", "Upgrade"}]}

\* the inventory merger: an upsert of the row keyed by the identifier; Install and
\* Upgrade set installed, Remove clears it; no other row is touched
MergeOne(inv, p) ==
    {r \in inv : r.pkg # p.pkg}
        \cup {[pkg |-> p.pkg, installed |-> p.op \in {"Install", "Upgrade"}]}

RECURSIVE MergeAll(_, _)
MergeAll(inv, ps) ==
    IF ps = <<>> THEN inv ELSE MergeAll(MergeOne(inv, Head(ps)), Tail(ps))

(***************************************************************************)
(* Pieces of extract_history.                                              *)
(***************************************************************************)
\* (variant: the status starts as success)
InitialStatus_Success == EXIT_SUCCESS

\* int status = EXIT_FAILURE;
InitialStatus == EXIT_FAILURE

\* (variant: the scan starts without skipping)
InitialSkip_False == FALSE

\* bool skip = TRUE;
InitialSkip == TRUE

\* (variant: a start marker as old as the Cursor ends the skipping)
SkipAfterStart_NotStrict(sk, t, lt) == IF sk /\ StrCmp(t, lt) >= 0 THEN FALSE ELSE sk

\* (variant: every start marker is compared with the Cursor)
SkipAfterStart_Recompared(sk, t, lt) == ~(StrCmp(t, lt) > 0)

\* if (skip && strcmp(rfc_time, last_time) > 0) skip = FALSE;
SkipAfterStart(sk, t, lt) == IF sk /\ StrCmp(t, lt) > 0 THEN FALSE ELSE sk

\* eid and last_eid are uint32_t, so eid - last_eid is computed modulo 2^32: for
\* e < le it is 2^32 - (le - e).  WrapsTo(d, c) is d + c = 2^32 for naturals d and
\* c, computed on the 16-bit halves of d and c.
WrapsTo(d, c) ==
    LET lo == (d % HalfWord) + (c % HalfWord)
        hi == (d \div HalfWord) + (c \div HalfWord)
    IN  \/ lo = 0 /\ hi = HalfWord
        \/ lo = HalfWord /\ hi = HalfWord - 1

\* (variant: the budget is reached one event late)
CountReached_OneLate(c, e, le) ==
    c > 0 /\ IF e >= le THEN e - le = c + 1 ELSE WrapsTo(le - e, c + 1)

\* if (count > 0 && eid - last_eid == count), the subtraction modulo 2^32
CountReached(c, e, le) ==
    c > 0 /\ IF e >= le THEN e - le = c ELSE WrapsTo(le - e, c)

\* (variant: the Upgrade branch passes the operation of the Remove branch)
SwOp_UpgradeRemoves(cmd) == IF cmd = "Install" THEN "Install" ELSE "Remove"

\* SW_OP_INSTALL, SW_OP_UPGRADE, SW_OP_REMOVE of the four branches
SwOp(cmd) ==
    CASE cmd = "Install" -> "Install"
      [] cmd = "Upgrade" -> "Upgrade"
      [] cmd = "Remove" -> "Remove"
      [] cmd = "Purge" -> "Remove"

\* (variant: the result of the reconciliation is ignored)
StatusAfterMerge_Ignored(st, ok) == EXIT_SUCCESS

\* if (history->merge_installed_packages(history)) status = EXIT_SUCCESS;
StatusAfterMerge(st, ok) == IF ok THEN EXIT_SUCCESS ELSE st

\* the status returned when the history file cannot be opened
StatusOpenFailed == C_FALSE

\* (variant: installed_count is incremented for every row)
CountsInstalled_Always(r) == TRUE

\* if (installed) installed_count++;
CountsInstalled(r) == r.installed

\* the while loop of list_identifiers over the rows the enumerator yields
RECURSIVE ListTotals(_)
ListTotals(rows) ==
    IF rows = {} THEN NoList
    ELSE LET r == CHOOSE x \in rows : TRUE
             t == ListTotals(rows \ {r})
         IN  [count |-> t.count + 1,
              installed_count |-> t.installed_count + IF CountsInstalled(r) THEN 1 ELSE 0]

Snapshot ==
    [events |-> Len(events), packages |-> Len(packages), inventory |-> inventory,
     time |-> IF HasLastEvent THEN LastEvent.time ELSE 0, synced |-> synced]

Cleared ==
    /\ count' = 0
    /\ size' = 0
    /\ pos' = 0
    /\ skip' = InitialSkip
    /\ eid' = 0
    /\ last_eid' = 0
    /\ last_time' = 0
    /\ status' = EXIT_SUCCESS
    /\ outcome' = "none"
    /\ merges' = <<>>
    /\ before' = NoSnapshot
    /\ listed' = NoList

Init ==
    /\ history = <<>>
    /\ events = <<>>
    /\ packages = <<>>
    /\ inventory = {}
    /\ pc = "idle"
    /\ count = 0
    /\ size = 0
    /\ pos = 0
    /\ skip = InitialSkip
    /\ eid = 0
    /\ last_eid = 0
    /\ last_time = 0
    /\ status = EXIT_SUCCESS
    /\ outcome = "none"
    /\ merges = <<>>
    /\ before = NoSnapshot
    /\ listed = NoList
    /\ synced = -1

Stopped == pc = "idle"

(***************************************************************************)
(* The environment: the package manager appends to its log, and the        *)
(* database is initialised out of band with a first event, older than      *)
(* every timestamp of the log.                                             *)
(***************************************************************************)
AppendLine(l) ==
    /\ Stopped
    /\ Len(history) < MaxLines
    /\ history' = Append(history, l)
    /\ UNCHANGED <<db, pc, locals, synced>>

CreateDb ==
    /\ Stopped
    /\ events = <<>>
    /\ events' = <<[eid |-> 1, time |-> 0, line |-> 0]>>
    /\ UNCHANGED <<history, packages, inventory, pc, locals, synced>>

(***************************************************************************)
(* extract_history, up to the loop.                                        *)
(***************************************************************************)
\* do_args: count = atoi(optarg); then the locals' initialisers
Enter(c) ==
    /\ Stopped
    /\ count' = c
    /\ eid' = 0
    /\ skip' = InitialSkip
    /\ pos' = 0
    /\ merges' = <<>>
    /\ before' = Snapshot
    /\ listed' = NoList

\* history path not set, or chunk_map fails: return FALSE
OpenFails(c) ==
    /\ Enter(c)
    /\ pc' = "exit"
    /\ status' = StatusOpenFailed
    /\ outcome' = "open"
    /\ size' = 0
    /\ UNCHANGED <<history, db, last_eid, last_time, synced>>

\* sw_collector_history_create returns NULL: goto end
CreateFails(c) ==
    /\ Enter(c)
    /\ pc' = "exit"
    /\ status' = InitialStatus
    /\ outcome' = "unsupported"
    /\ size' = Len(history)
    /\ UNCHANGED <<history, db, last_eid, last_time, synced>>

\* get_last_event fails or yields eid 0: goto end; else enter the loop
Begin(c) ==
    /\ Enter(c)
    /\ size' = Len(history)
    /\ status' = InitialStatus
    /\ \E got \in BOOLEAN :
          IF ~got \/ ~HasLastEvent \/ LastEvent.eid = 0
          THEN /\ pc' = "exit"
               /\ outcome' = "nocursor"
               /\ UNCHANGED <<last_eid, last_time>>
          ELSE /\ pc' = "loop"
               /\ outcome' = "running"
               /\ last_eid' = LastEvent.eid
               /\ last_time' = LastEvent.time
    /\ UNCHANGED <<history, db, synced>>

(***************************************************************************)
(* The loop: fetchline yields line pos + 1 of the mapped chunk.            *)
(***************************************************************************)
Fetched == pc = "loop" /\ pos < size
Line == history[pos + 1]

Continue ==
    /\ pos' = pos + 1
    /\ UNCHANGED <<pc, status, outcome, synced>>

GotoEnd(why) ==
    /\ pos' = pos + 1
    /\ pc' = "exit"
    /\ outcome' = why
    /\ synced' = -1
    /\ UNCHANGED status

\* if (line.len == 0) continue;
LoopBlank ==
    /\ Fetched
    /\ Line.len = 0
    /\ Continue
    /\ UNCHANGED <<history, db, count, size, skip, eid, last_eid, last_time, merges, before, listed>>

\* if (!extract_token(&cmd, ':', &line)) goto end;
LoopNoColon ==
    /\ Fetched
    /\ Line.len # 0
    /\ ~Line.colon
    /\ GotoEnd("malformed")
    /\ UNCHANGED <<history, db, count, size, skip, eid, last_eid, last_time, merges, before, listed>>

Tokenized == Fetched /\ Line.len # 0 /\ Line.colon

\* if (match("Start-Date", &cmd)) { ... }
LoopStartDate ==
    /\ Tokenized
    /\ Line.cmd = "Start-Date"
    /\ IF ~ExtractTimestampOk(Line)
       THEN /\ GotoEnd("timestamp")
            /\ UNCHANGED <<db, skip, eid>>
       ELSE LET rfc_time == Line.ts
                sk == SkipAfterStart(skip, rfc_time, last_time)
            IN  /\ skip' = sk
                /\ IF sk
                   THEN /\ Continue
                        /\ UNCHANGED <<db, eid>>
                   ELSE \E ok \in BOOLEAN :
                          IF ok
                          THEN /\ Len(events) < MaxEvents
                               /\ events' = Append(events, NewEvent(rfc_time, pos + 1))
                               /\ eid' = NextEid
                               /\ Continue
                               /\ UNCHANGED <<packages, inventory>>
                          ELSE /\ eid' = 0
                               /\ GotoEnd("add_event")
                               /\ UNCHANGED db
    /\ UNCHANGED <<history, count, size, last_eid, last_time, merges, before, listed>>

\* else if (skip) continue;
LoopSkip ==
    /\ Tokenized
    /\ Line.cmd # "Start-Date"
    /\ skip
    /\ Continue
    /\ UNCHANGED <<history, db, count, size, skip, eid, last_eid, last_time, merges, before, listed>>

\* (variant: the budget is tested when an operation line is read)
LoopOperation_Budgeted ==
    /\ Tokenized
    /\ ~skip
    /\ Line.cmd \in Operations
    /\ IF CountReached(count, eid, last_eid)
       THEN /\ GotoEnd("count")
            /\ UNCHANGED packages
       ELSE /\ packages' = Append(packages, NewPackage(Line, eid, SwOp(Line.cmd), pos + 1))
            /\ Continue
    /\ UNCHANGED <<history, events, inventory, count, size, skip, eid, last_eid, last_time,
                   merges, before, listed>>

\* else if (match("Install" | "Upgrade" | "Remove" | "Purge", &cmd))
\*     if (!history->extract_packages(history, line, eid, op)) goto end;
LoopOperation ==
    /\ Tokenized
    /\ ~skip
    /\ Line.cmd \in Operations
    /\ \E ok \in BOOLEAN :
         IF ok
         THEN /\ packages' = Append(packages, NewPackage(Line, eid, SwOp(Line.cmd), pos + 1))
              /\ Continue
         ELSE /\ GotoEnd("extract_packages")
              /\ UNCHANGED packages
    /\ UNCHANGED <<history, events, inventory, count, size, skip, eid, last_eid, last_time,
                   merges, before, listed>>

\* else if (match("End-Date", &cmd)) if (count > 0 && eid - last_eid == count) goto end;
LoopEndDate ==
    /\ Tokenized
    /\ ~skip
    /\ Line.cmd = "End-Date"
    /\ IF CountReached(count, eid, last_eid) THEN GotoEnd("count") ELSE Continue
    /\ UNCHANGED <<history, db, count, size, skip, eid, last_eid, last_time, merges, before, listed>>

\* no branch matches: the next line is fetched
LoopOther ==
    /\ Tokenized
    /\ ~skip
    /\ Line.cmd \notin Operations \cup {"Start-Date", "End-Date"}
    /\ Continue
    /\ UNCHANGED <<history, db, count, size, skip, eid, last_eid, last_time, merges, before, listed>>

\* fetchline returns FALSE: merge_installed_packages, then end
LoopEof ==
    /\ pc = "loop"
    /\ pos = size
    /\ \E ok \in BOOLEAN :
         /\ merges' = Append(merges, ok)
         /\ status' = StatusAfterMerge(status, ok)
         /\ inventory' = IF ok THEN MergeAll(inventory, ProducedInRun(last_eid))
                               ELSE inventory
    /\ pc' = "exit"
    /\ outcome' = "eof"
    /\ synced' = size
    /\ UNCHANGED <<history, events, packages, count, size, pos, skip, eid, last_eid,
                   last_time, before, listed>>

(***************************************************************************)
(* list_identifiers: returns EXIT_FAILURE when the enumerator cannot be    *)
(* created, else walks the software identifiers and returns EXIT_SUCCESS.  *)
(* do_args has stored a --count option in the static count, which the      *)
(* function's own local count hides.                                       *)
(***************************************************************************)
ListIdentifiers(c) ==
    /\ Stopped
    /\ count' = c
    /\ before' = Snapshot
    /\ \E opened \in BOOLEAN :
         IF opened
         THEN /\ listed' = ListTotals(inventory)
              /\ status' = EXIT_SUCCESS
              /\ outcome' = "list"
         ELSE /\ listed' = NoList
              /\ status' = EXIT_FAILURE
              /\ outcome' = "enumerator"
    /\ pc' = "exit"
    /\ UNCHANGED <<history, db, size, pos, skip, eid, last_eid, last_time, merges, synced>>

(***************************************************************************)
(* main: db->destroy(db); exit(status).  The process ends and its locals   *)
(* with it.                                                                *)
(***************************************************************************)
Exit ==
    /\ pc = "exit"
    /\ pc' = "idle"
    /\ Cleared
    /\ UNCHANGED <<history, db, synced>>

Next ==
    \/ \E l \in LogLines : AppendLine(l)
    \/ CreateDb
    \/ \E c \in 0..MaxCount : OpenFails(c)
    \/ \E c \in 0..MaxCount : CreateFails(c)
    \/ \E c \in 0..MaxCount : Begin(c)
    \/ LoopBlank
    \/ LoopNoColon
    \/ LoopStartDate
    \/ LoopSkip
    \/ LoopOperation
    \/ LoopEndDate
    \/ LoopOther
    \/ LoopEof
    \/ \E c \in 0..MaxCount : ListIdentifiers(c)
    \/ Exit

Spec == Init /\ [][Next]_vars

(***************************************************************************)
(* The inventory merger on its own: a run that has just accepted the start *)
(* marker of line 1, over every sequence of at most MaxMergeLines          *)
(* operation lines on two versions of one package, from every starting     *)
(* inventory; the operation lines are routed, the end of the log merges    *)
(* them, and the same events are merged a second time.                     *)
(***************************************************************************)
MergeKeys == {[name |-> "a", version |-> "1"], [name |-> "a", version |-> "2"]}
MergeLines == {OpLine(c, k) : c \in Operations, k \in MergeKeys}
MergeLogs == UNION {[1..n -> MergeLines] : n \in 0..MaxMergeLines}
MergeInventories ==
    {inv \in SUBSET [pkg : MergeKeys, installed : BOOLEAN] :
        \A r1, r2 \in inv : r1.pkg = r2.pkg => r1 = r2}

InitMerge ==
    /\ \E ops \in MergeLogs : history = <<StartLine(1)>> \o ops
    /\ events = <<[eid |-> 1, time |-> 0, line |-> 0], [eid |-> 2, time |-> 1, line |-> 1]>>
    /\ packages = <<>>
    /\ inventory \in MergeInventories
    /\ pc = "loop"
    /\ count = 0
    /\ size = Len(history)
    /\ pos = 1
    /\ skip = FALSE
    /\ eid = 2
    /\ last_eid = 1
    /\ last_time = 0
    /\ status = InitialStatus
    /\ outcome = "running"
    /\ merges = <<>>
    /\ before = [events |-> 1, packages |-> 0, inventory |-> inventory, time |-> 0,
                 synced |-> -1]
    /\ listed = NoList
    /\ synced = -1

\* merge_installed_packages once more, over the package events of the same run
Remerge ==
    /\ pc = "exit"
    /\ outcome = "eof"
    /\ merges = <<TRUE>>
    /\ merges' = Append(merges, TRUE)
    /\ inventory' = MergeAll(inventory, ProducedInRun(last_eid))
    /\ UNCHANGED <<history, events, packages, pc, count, size, pos, skip, eid, last_eid,
                   last_time, status, outcome, before, listed, synced>>

NextMerge ==
    \/ LoopOperation
    \/ LoopEof
    \/ Remerge
    \/ \E c \in 0..MaxCount : ListIdentifiers(c)
    \/ Exit

SpecMerge == InitMerge /\ [][NextMerge]_vars

(***************************************************************************)
(* Batching: a fixed log with no line the loop rejects, a database whose   *)
(* cursor is its first event, and only runs with a budget in which no      *)
(* call fails; a run leaves the loop on the budget or at the end of the    *)
(* log.                                                                    *)
(***************************************************************************)
BatchLines ==
    {l \in LogLines :
        l.len = 0 \/ (l.colon /\ (l.cmd = "Start-Date" => ExtractTimestampOk(l)))}
BatchLogs == UNION {[1..n -> BatchLines] : n \in 0..MaxLines}

InitBatch ==
    /\ history \in BatchLogs
    /\ \E t \in 0..MaxTs : events = <<[eid |-> 1, time |-> t, line |-> 0]>>
    /\ packages = <<>>
    /\ inventory = {}
    /\ pc = "idle"
    /\ count = 0
    /\ size = 0
    /\ pos = 0
    /\ skip = InitialSkip
    /\ eid = 0
    /\ last_eid = 0
    /\ last_time = 0
    /\ status = EXIT_SUCCESS
    /\ outcome = "none"
    /\ merges = <<>>
    /\ before = NoSnapshot
    /\ listed = NoList
    /\ synced = -1

\* no call of the step fails
Unfailing == outcome' \in {"none", "running", "count", "eof"}

NextBatch ==
    \/ \E c \in 1..MaxCount : Begin(c) /\ Unfailing
    \/ LoopBlank /\ Unfailing
    \/ LoopStartDate /\ Unfailing
    \/ LoopSkip /\ Unfailing
    \/ LoopOperation /\ Unfailing
    \/ LoopEndDate /\ Unfailing
    \/ LoopOther /\ Unfailing
    \/ LoopEof /\ Unfailing
    \/ Exit /\ Unfailing

SpecBatch == InitBatch /\ [][NextBatch]_vars

\* what one run without budget adds to the database when no call fails: the loop
\* from line i on, with the skip flag sk, the cursor time lt and the id e of the
\* event added last
RECURSIVE WholeRun(_, _, _, _, _, _)
WholeRun(h, i, sk, lt, e, acc) ==
    IF i > Len(h) THEN acc
    ELSE LET l == h[i]
         IN  IF l.len = 0 THEN WholeRun(h, i + 1, sk, lt, e, acc)
             ELSE IF l.cmd = "Start-Date"
             THEN IF SkipAfterStart(sk, l.ts, lt)
                  THEN WholeRun(h, i + 1, TRUE, lt, e, acc)
                  ELSE WholeRun(h, i + 1, FALSE, lt, e + 1,
                                [acc EXCEPT !.events =
                                    Append(@, [eid |-> e + 1, time |-> l.ts, line |-> i])])
             ELSE IF sk THEN WholeRun(h, i + 1, sk, lt, e, acc)
             ELSE IF l.cmd \in Operations
             THEN WholeRun(h, i + 1, sk, lt, e,
                           [acc EXCEPT !.packages =
                               Append(@, NewPackage(l, e, SwOp(l.cmd), i))])
             ELSE WholeRun(h, i + 1, sk, lt, e, acc)

(***************************************************************************)
(* Vocabulary of the properties.                                           *)
(***************************************************************************)
\* the lines of the log that start a transaction
Markers(h) == {i \in 1..Len(h) : h[i].len # 0 /\ h[i].colon /\ h[i].cmd = "Start-Date"}
EndMarkers(h) == {i \in 1..Len(h) : h[i].len # 0 /\ h[i].colon /\ h[i].cmd = "End-Date"}

\* the start-marker timestamps grow along the file
StrictlyIncreasing(h) == \A i, j \in Markers(h) : i < j => h[i].ts < h[j].ts
NonDecreasing(h) == \A i, j \in Markers(h) : i < j => h[i].ts <= h[j].ts

\* the run has ended at the statement named
Ended(why) == pc = "exit" /\ outcome = why

\* the rows of the events table made from start marker m
CommitsOf(m) == {k \in 1..Len(events) : events[k].line = m}

\* what this run has added to the database so far
AddedEvents == SubSeq(events, before.events + 1, Len(events))
AddedPackages == SubSeq(packages, before.packages + 1, Len(packages))
Untouched ==
    /\ Len(events) = before.events
    /\ Len(packages) = before.packages
    /\ inventory = before.inventory

(***************************************************************************)
(* C1                                                                      *)
(***************************************************************************)
NoMarkerTwice ==
    \A j, k \in 1..Len(events) :
        j # k /\ events[j].line # 0 => events[j].line # events[k].line

EveryMarkerOnce == \A m \in Markers(history) : Cardinality(CommitsOf(m)) = 1

\* C1 as claimed: over any log that only grows by appending, no start marker is
\* ever committed twice, and once a run has read the log to its end every start
\* marker of the log is exactly one Transaction.
C1_AnyLog == NoMarkerTwice /\ (Ended("eof") => EveryMarkerOnce)

\* C1, amended: the same, for a log whose start-marker timestamps strictly
\* increase in file order (all of them newer than the first Cursor, as the
\* timestamps of the log are here).
C1_EachMarkerOnce == StrictlyIncreasing(history) => NoMarkerTwice /\ (Ended("eof") => EveryMarkerOnce)

\* a later run, over a log of at least two transactions in strict time order, has
\* committed the transactions appended since the earlier run committed its own
C1_Witness ==
    /\ Ended("eof")
    /\ StrictlyIncreasing(history)
    /\ Cardinality(Markers(history)) >= 2
    /\ before.events >= 2
    /\ Len(events) > before.events

(***************************************************************************)
(* C2                                                                      *)
(***************************************************************************)
\* this run began over a log that an earlier run had read to its end
SecondRun == pc \in {"loop", "exit"} /\ before.synced = size

\* C2 as claimed: a second run over the unchanged log commits no Transaction, emits
\* no PackageEvent and leaves the inventory as it was.
C2_AnyLog == SecondRun => Untouched

\* C2, amended: the same, for a log whose start-marker timestamps do not decrease
\* in file order.
C2_Idempotent == SecondRun /\ NonDecreasing(history) => Untouched

\* the second run has ended, after a first one that committed transactions with
\* packages and merged them, and has itself merged
C2_Witness ==
    /\ Ended("eof")
    /\ SecondRun
    /\ NonDecreasing(history)
    /\ before.events >= 2
    /\ before.packages >= 1
    /\ inventory # {}
    /\ merges = <<TRUE>>

(***************************************************************************)
(* C3                                                                      *)
(***************************************************************************)
\* an earlier run read the log to its end, lines were appended, and this run has
\* read the longer log to its end
Resumed == Ended("eof") /\ before.synced >= 0 /\ before.synced < size

OnlyAppended ==
    /\ {AddedEvents[k].line : k \in DOMAIN AddedEvents}
           = {m \in Markers(history) : m > before.synced}
    /\ \A j, k \in DOMAIN AddedEvents : j < k => AddedEvents[j].line < AddedEvents[k].line
    /\ \A k \in DOMAIN AddedPackages :
           /\ AddedPackages[k].line > before.synced
           /\ \E j \in DOMAIN AddedEvents : AddedEvents[j].eid = AddedPackages[k].eid

\* C3 as claimed: the new run commits exactly the appended transactions, in log
\* order, and extracts package events only for them.
C3_AnyLog == Resumed => OnlyAppended

\* C3, amended: the same, for a log whose start-marker timestamps strictly
\* increase in file order (all of them newer than the first Cursor, as the
\* timestamps of the log are here).
C3_Resumption == Resumed /\ StrictlyIncreasing(history) => OnlyAppended

\* the earlier run had committed a transaction, and the new run an appended one
\* with a package
C3_Witness ==
    /\ Resumed
    /\ StrictlyIncreasing(history)
    /\ before.events >= 2
    /\ Len(AddedEvents) >= 1
    /\ Len(AddedPackages) >= 1

(***************************************************************************)
(* C4                                                                      *)
(***************************************************************************)
\* C4 as claimed: every Transaction is created with a start timestamp greater than
\* the timestamp the Cursor stores when it is created, which is that of the row
\* before it.
C4_NeverOlder == \A k \in 1..(Len(events) - 1) : events[k + 1].time > events[k].time

\* C4, amended: the first Transaction a run creates has a start timestamp greater
\* than the Cursor timestamp read at the start of the run; all the Transactions are
\* newer than the stored Cursor when the start-marker timestamps of the log strictly
\* increase in file order.
C4_FirstIsNewer ==
    /\ pc \in {"loop", "exit"} /\ Len(events) > before.events
           => events[before.events + 1].time > before.time
    /\ StrictlyIncreasing(history) => C4_NeverOlder

\* a run after one that committed has itself committed two transactions
C4_Witness ==
    /\ pc = "exit"
    /\ StrictlyIncreasing(history)
    /\ before.events >= 2
    /\ Len(events) >= before.events + 2

(***************************************************************************)
(* C5                                                                      *)
(***************************************************************************)
\* C5 as claimed: after any run the Cursor's timestamp is at least what it was
\* before the run.
C5_AnyLog == pc = "exit" /\ HasLastEvent => LastEvent.time >= before.time

\* C5, amended: the same, for a log whose start-marker timestamps do not decrease
\* in file order.
C5_CursorMonotone == NonDecreasing(history) => C5_AnyLog

\* a run has moved a Cursor that an earlier run had moved
C5_Witness ==
    /\ pc = "exit"
    /\ NonDecreasing(history)
    /\ before.time > 0
    /\ LastEvent.time > before.time

(***************************************************************************)
(* C6                                                                      *)
(***************************************************************************)
\* C6 as claimed: when the run aborts on a package-extraction failure inside
\* transaction T (eid), the Cursor is not at T.
C6_CursorNotAdvanced == Ended("extract_packages") => LastEvent.eid # eid

(***************************************************************************)
(* C7                                                                      *)
(***************************************************************************)
\* C7: the step that reads a non-empty line without ':' ends the run with the
\* failure status, calls no merge and leaves the database, with what the run had
\* committed, as it is.
C7_MalformedAborts ==
    [][Fetched /\ Line.len # 0 /\ ~Line.colon
           => /\ pc' = "exit"
              /\ outcome' = "malformed"
              /\ status' = EXIT_FAILURE
              /\ merges' = <<>>
              /\ db' = db]_vars

\* the run had committed a transaction and a package when it met the line
C7_Witness ==
    /\ Ended("malformed")
    /\ status = EXIT_FAILURE
    /\ Len(AddedEvents) >= 1
    /\ Len(AddedPackages) >= 1

(***************************************************************************)
(* C8                                                                      *)
(***************************************************************************)
\* the start markers the run takes for new: the first one newer than the Cursor
\* and all that follow it
NewMarkers ==
    {m \in Markers(history) :
        \E i \in Markers(history) : i <= m /\ history[i].ts > last_time}

\* the first n of them
FirstNew(n) == {m \in NewMarkers : Cardinality({i \in NewMarkers : i <= m}) <= n}

\* an End-Date line follows start marker m before the next start marker
Closed(m) ==
    \E e \in EndMarkers(history) :
        e > m /\ \A i \in Markers(history) : ~(m < i /\ i < e)

RanToStop == pc = "exit" /\ outcome \in {"count", "eof"}

\* C8 as claimed: with a budget N > 0 and at least N new transactions in the log, a
\* run that meets no error commits exactly N Transactions.
C8_AnyLog ==
    RanToStop /\ count > 0 /\ Cardinality(NewMarkers) >= count
        => Len(AddedEvents) = count

\* C8, amended: the same, when each of the first N new transactions is closed by an
\* End-Date line before the next Start-Date line; the run then stops on the budget,
\* at that End-Date line, with nothing of a later line committed or extracted.
C8_Budget ==
    /\ RanToStop
    /\ count > 0
    /\ Cardinality(NewMarkers) >= count
    /\ \A m \in FirstNew(count) : Closed(m)
    => /\ Len(AddedEvents) = count
       /\ outcome = "count"
       /\ pos \in EndMarkers(history)
       /\ \A k \in DOMAIN AddedEvents : AddedEvents[k].line < pos
       /\ \A k \in DOMAIN AddedPackages : AddedPackages[k].line < pos

\* the run stopped on its budget with a further transaction left in the log
C8_Witness ==
    /\ Ended("count")
    /\ Len(AddedEvents) = count
    /\ \A m \in FirstNew(count) : Closed(m)
    /\ \E m \in Markers(history) : m > pos

(***************************************************************************)
(* C9                                                                      *)
(***************************************************************************)
\* C9 as claimed: a run that stops on its budget returns the success status.
C9_GracefulStop == Ended("count") => status = EXIT_SUCCESS

(***************************************************************************)
(* C10                                                                     *)
(***************************************************************************)
\* C10: merge_installed_packages is not called while lines are being read; a run
\* that reaches the end of the log has read every mapped line and called it once,
\* and returns success exactly if the call returned true.
C10_MergeAtEof ==
    /\ pc = "loop" => merges = <<>>
    /\ Ended("eof") =>
           /\ pos = size
           /\ Len(merges) = 1
           /\ merges[1] => status = EXIT_SUCCESS
           /\ ~merges[1] => status = EXIT_FAILURE

\* a run over a log of two lines or more ended with a failed reconciliation
C10_Witness ==
    /\ Ended("eof")
    /\ size >= 2
    /\ merges = <<FALSE>>
    /\ status = EXIT_FAILURE


(***************************************************************************)
(* C11  A run that finds no cursor (get_last_event fails, or yields the    *)
(* id 0 of an empty table) returns EXIT_FAILURE, has fetched no line of    *)
(* the log, has called no merge, and leaves events, package events and     *)
(* inventory as they were; and the loop is only ever entered with a        *)
(* cursor whose id is not 0.                                               *)
(***************************************************************************)
C11_NoCursorFails ==
    /\ Ended("nocursor") =>
          /\ status = EXIT_FAILURE
          /\ pos = 0
          /\ merges = <<>>
          /\ Untouched
    /\ pc = "loop" => last_eid # 0
    /\ pc = "exit" /\ before.events = 0 => pos = 0 /\ Untouched

C11_Witness ==
    /\ Ended("nocursor")
    /\ size >= 1
    /\ before.events = 0

(***************************************************************************)
(* C12  A run that cannot read the log (no history path, or chunk_map      *)
(* fails) changes nothing in the database and returns a status other than  *)
(* success.                                                                *)
(***************************************************************************)
C12_OpenFailureReported ==
    Ended("open") =>
        /\ Untouched
        /\ merges = <<>>
        /\ status # EXIT_SUCCESS


(***************************************************************************)
(* C13  (the merger on its own)  After the operation lines of a            *)
(* transaction have been routed and merged, every identifier named by one  *)
(* of them has exactly one inventory row, installed when the last line     *)
(* naming it is Install or Upgrade and not installed when it is Remove or  *)
(* Purge; the rows of every other identifier, another version of the same  *)
(* name included, are those of the starting inventory.                     *)
(***************************************************************************)
Merged == Ended("eof") /\ merges = <<TRUE>>
LinesNaming(k) == {i \in 2..size : history[i].pkg = k}
LastNaming(k) == CHOOSE i \in LinesNaming(k) : \A j \in LinesNaming(k) : j <= i
RowsOf(inv, k) == {r \in inv : r.pkg = k}

C13_MergeCorrect ==
    Merged =>
        /\ Len(AddedPackages) = size - 1
        /\ \A k \in MergeKeys :
              IF LinesNaming(k) = {}
              THEN RowsOf(inventory, k) = RowsOf(before.inventory, k)
              ELSE RowsOf(inventory, k)
                     = {[pkg |-> k,
                         installed |-> history[LastNaming(k)].cmd \in {"Install", "Upgrade"}]}

\* one version was installed and its last line removes it, the other was unknown
\* and its last line upgrades to it
C13_Witness ==
    /\ Merged
    /\ \E k1, k2 \in MergeKeys :
          /\ k1 # k2
          /\ [pkg |-> k1, installed |-> TRUE] \in before.inventory
          /\ RowsOf(before.inventory, k2) = {}
          /\ Cardinality(LinesNaming(k1)) = 2
          /\ history[LastNaming(k1)].cmd = "Remove"
          /\ LinesNaming(k2) # {}
          /\ history[LastNaming(k2)].cmd = "Upgrade"
          /\ inventory = {[pkg |-> k1, installed |-> FALSE], [pkg |-> k2, installed |-> TRUE]}

(***************************************************************************)
(* C14  (the merger on its own)  Merging the package events of a run a     *)
(* second time changes no inventory row.                                   *)
(***************************************************************************)
C14_MergeIdempotent == [][Remerge => inventory' = inventory]_vars

C14_Witness ==
    /\ Ended("eof")
    /\ merges = <<TRUE, TRUE>>
    /\ Len(AddedPackages) = MaxMergeLines
    /\ inventory # before.inventory
    /\ \E i, j \in 1..Len(packages) :
          i < j /\ packages[i].pkg = packages[j].pkg /\ packages[i].op # packages[j].op

(***************************************************************************)
(* C15  list_identifiers changes no event, package event or inventory row; *)
(* it counts each inventory row once, the installed rows among them, so    *)
(* that the installed and the deleted totals add up to the rows counted;   *)
(* it returns EXIT_SUCCESS unless the enumerator could not be created.     *)
(***************************************************************************)
ListedDeleted == listed.count - listed.installed_count

C15_ListReadOnly ==
    /\ Ended("list") =>
          /\ Untouched
          /\ merges = <<>>
          /\ listed.count = Cardinality(inventory)
          /\ listed.installed_count = Cardinality({r \in inventory : r.installed})
          /\ ListedDeleted = Cardinality({r \in inventory : ~r.installed})
          /\ listed.installed_count + ListedDeleted = listed.count
          /\ status = EXIT_SUCCESS
    /\ Ended("enumerator") =>
          /\ Untouched
          /\ merges = <<>>
          /\ status = EXIT_FAILURE

C15_Witness ==
    /\ Ended("list")
    /\ listed.count = 2
    /\ listed.installed_count = 1
    /\ Len(packages) >= 2


(***************************************************************************)
(* C16  While a run is past its skipping, eid is not 0 and is the id of    *)
(* the event the run added last, so that is the id under which an          *)
(* operation line is routed; every package event of the run carries the    *)
(* id of the nearest start marker the run committed above its line; and a  *)
(* run ended by a failed add_event has eid 0 and has routed no line since. *)
(***************************************************************************)
OwnerOf(p) ==
    {j \in 1..Len(AddedEvents) :
        /\ AddedEvents[j].line < p.line
        /\ \A i \in 1..Len(AddedEvents) :
              AddedEvents[i].line < p.line => AddedEvents[i].line <= AddedEvents[j].line}

C16_RoutedUnderEvent ==
    /\ pc = "loop" /\ ~skip =>
          /\ eid # 0
          /\ Len(events) > before.events
          /\ eid = LastEvent.eid
    /\ pc \in {"loop", "exit"} =>
          \A k \in 1..Len(AddedPackages) :
              /\ AddedPackages[k].eid # 0
              /\ OwnerOf(AddedPackages[k]) # {}
              /\ \A j \in OwnerOf(AddedPackages[k]) :
                    AddedEvents[j].eid = AddedPackages[k].eid
    /\ Ended("add_event") =>
          /\ eid = 0
          /\ status = EXIT_FAILURE
          /\ \A k \in 1..Len(AddedPackages) : AddedPackages[k].line < pos

C16_Witness ==
    /\ pc = "exit"
    /\ Len(AddedEvents) >= 2
    /\ Len(AddedPackages) >= 1
    /\ AddedPackages[1].eid = AddedEvents[2].eid


(***************************************************************************)
(* C17  A run enters its loop skipping; the time it compares start markers *)
(* with is that of the cursor read before the loop and never changes       *)
(* during the run; once skip is FALSE it stays FALSE to the end of the     *)
(* run, and every parsable start marker read from then on is given to      *)
(* add_event whatever its timestamp.                                       *)
(***************************************************************************)
C17_SkipOneWay ==
    [][pc = "loop" =>
          /\ pos = 0 => skip
          /\ last_time = before.time
          /\ pc' # "idle" => last_time' = last_time
          /\ ~skip => ~skip'
          /\ ~skip /\ Tokenized /\ Line.cmd = "Start-Date" /\ ExtractTimestampOk(Line) =>
                \/ events' = Append(events, NewEvent(Line.ts, pos + 1)) /\ pc' = "loop"
                \/ events' = events /\ pc' = "exit" /\ outcome' = "add_event"]_vars

\* a start marker not newer than the cursor has been committed after the first
C17_Witness ==
    /\ pc = "exit"
    /\ ~skip
    /\ \E j \in 2..Len(AddedEvents) : AddedEvents[j].time <= last_time


(***************************************************************************)
(* C18  A run stopped by the budget stopped on an End-Date line read while *)
(* not skipping, after committing as many events as the budget; every      *)
(* operation line between the first start marker it committed and that     *)
(* End-Date line has been routed, and nothing below that line has been     *)
(* committed or routed.  While skipping, an End-Date line is passed over.  *)
(***************************************************************************)
IsOperation(i) == history[i].len # 0 /\ history[i].colon /\ history[i].cmd \in Operations

C18_StopsBetweenTransactions ==
    /\ Ended("count") =>
          /\ pos \in EndMarkers(history)
          /\ ~skip
          /\ count > 0
          /\ Len(AddedEvents) = count
          /\ merges = <<>>
          /\ \A i \in AddedEvents[1].line..pos :
                IsOperation(i) => \E k \in 1..Len(AddedPackages) : AddedPackages[k].line = i
          /\ \A k \in 1..Len(AddedEvents) : AddedEvents[k].line < pos
          /\ \A k \in 1..Len(AddedPackages) : AddedPackages[k].line < pos
    /\ pc \in {"loop", "exit"} /\ skip => outcome # "count" /\ Untouched

\* the run stops on the End-Date line of a transaction whose operation line it has
\* routed
C18_Witness ==
    /\ Ended("count")
    /\ IsOperation(pos - 1)
    /\ Len(AddedPackages) = 1


(***************************************************************************)
(* C19  (runs with a budget over a fixed log, no call failing)  When the   *)
(* start-marker timestamps of the log strictly increase and no operation   *)
(* line stands between an End-Date line and the next Start-Date line, the  *)
(* events and package events in the database once a run has reached the    *)
(* end of the log are those one run without budget adds from the same      *)
(* first cursor.                                                           *)
(***************************************************************************)
SingleRun ==
    WholeRun(history, 1, InitialSkip, events[1].time, events[1].eid,
             [events |-> <<>>, packages |-> <<>>])

SameAsSingleRun ==
    /\ SubSeq(events, 2, Len(events)) = SingleRun.events
    /\ packages = SingleRun.packages

\* an operation line that follows an End-Date line with no Start-Date line between
Stray(h) ==
    {i \in 1..Len(h) :
        /\ h[i].len # 0 /\ h[i].cmd \in Operations
        /\ \E e \in EndMarkers(h) : e < i /\ \A m \in Markers(h) : ~(e < m /\ m < i)}

\* as stated: for non-decreasing timestamps
C19_NonDecreasing == Ended("eof") /\ NonDecreasing(history) => SameAsSingleRun

C19_Batching ==
    Ended("eof") /\ StrictlyIncreasing(history) /\ Stray(history) = {} => SameAsSingleRun

\* a run stopped by the budget came before the one that reached the end and
\* committed the rest
C19_Witness ==
    /\ Ended("eof")
    /\ StrictlyIncreasing(history)
    /\ Stray(history) = {}
    /\ count > 0
    /\ before.events >= 2
    /\ Len(events) > before.events
    /\ EndMarkers(history) # {}


(***************************************************************************)
(* C20  While a run is skipping it has committed nothing, and the line it  *)
(* fetches is still examined: an operation, End-Date or other command      *)
(* line is passed over without any database call, but a non-empty line     *)
(* without ':' and a Start-Date line whose timestamp cannot be parsed end  *)
(* the run with EXIT_FAILURE, no merge and the database unchanged.         *)
(***************************************************************************)
AbortsUnchanged(why) ==
    /\ pc' = "exit"
    /\ outcome' = why
    /\ status' = EXIT_FAILURE
    /\ merges' = <<>>
    /\ db' = db

C20_SkippedStillParsed ==
    [][Fetched /\ skip =>
          /\ Untouched
          /\ Line.len # 0 /\ ~Line.colon => AbortsUnchanged("malformed")
          /\ Tokenized /\ Line.cmd = "Start-Date" /\ ~ExtractTimestampOk(Line) =>
                AbortsUnchanged("timestamp")
          /\ Tokenized /\ Line.cmd # "Start-Date" =>
                /\ pc' = "loop"
                /\ skip'
                /\ pos' = pos + 1
                /\ merges' = merges
                /\ db' = db]_vars

\* an operation line of the skipped region was passed over, then the run ended on
\* an unparsable start marker, still skipping
C20_Witness ==
    /\ Ended("timestamp")
    /\ skip
    /\ pos >= 2
    /\ IsOperation(pos - 1)
    /\ before.events >= 2
    /\ status = EXIT_FAILURE
    /\ Untouched

=============================================================================
